---- MODULE Spec2Model ----
(***************************************************************************)
(* Model of src/encrypt.py: the two-key, four-range character shift, its   *)
(* metadata-producing encoder, the metadata-assisted decoder and the       *)
(* metadata-free heuristic decoder.                                        *)
(*                                                                         *)
(* A character is a one-character string; a Python str is the sequence of  *)
(* its characters.                                                         *)
(***************************************************************************)
EXTENDS Integers, Sequences, FiniteSets, TLC

VARIABLES
    text,             \* the plaintext handed to the encoders
    shift1,           \* first key
    shift2,           \* second key
    pc,               \* position of the caller
    plain,            \* value returned by encrypt_text
    encrypted_chars,  \* encrypt_text_with_meta: list built by the loop
    meta_chars,       \* encrypt_text_with_meta: list built by the loop
    i,                \* encrypt_text_with_meta: characters of text consumed
    enc,              \* ciphertext returned by encrypt_text_with_meta
    meta,             \* metadata returned by encrypt_text_with_meta
    ciphertext,       \* decrypt_text_with_meta: argument
    metadata,         \* decrypt_text_with_meta: argument
    result_chars,     \* decrypt_text_with_meta: list built by the loop
    k,                \* decrypt_text_with_meta: pairs of the zip consumed
    dec,              \* value returned by decrypt_text_with_meta: {} (none) or {str}
    raised,           \* exception raised by decrypt_text_with_meta ("" when none)
    heur_in,          \* decrypt_text: argument
    heur              \* value returned by decrypt_text

vars == <<text, shift1, shift2, pc, plain, encrypted_chars, meta_chars, i, enc,
          meta, ciphertext, metadata, result_chars, k, dec, raised, heur_in, heur>>

----------------------------------------------------------------------------
(* Bounds of the model *)

\* longest plaintext built from SampleChars
MaxLen == 2
\* keys range over -MaxKey..MaxKey and over one key beyond a full turn each way
MaxKey == 2

----------------------------------------------------------------------------
(* Module constants, src/encrypt.py lines 4-9 *)

ALPHA_LOWER == <<"a","b","c","d","e","f","g","h","i","j","k","l","m",
                 "n","o","p","q","r","s","t","u","v","w","x","y","z">>
ALPHA_UPPER == <<"A","B","C","D","E","F","G","H","I","J","K","L","M",
                 "N","O","P","Q","R","S","T","U","V","W","X","Y","Z">>
LOWER_FIRST == {"a","b","c","d","e","f","g","h","i","j","k","l","m"}
LOWER_SECOND == {"n","o","p","q","r","s","t","u","v","w","x","y","z"}
UPPER_FIRST == {"A","B","C","D","E","F","G","H","I","J","K","L","M"}
UPPER_SECOND == {"N","O","P","Q","R","S","T","U","V","W","X","Y","Z"}

\* the characters of a str, as a set
Range(s) == {s[n] : n \in 1..Len(s)}

\* characters outside a-z and A-Z that texts are drawn from: whitespace,
\* punctuation, a digit, and cased letters outside ASCII
OtherChars == {" ", ",", "!", "7", "é", "É"}

\* every character a text may hold
Chars == Range(ALPHA_LOWER) \cup Range(ALPHA_UPPER) \cup OtherChars

\* the characters of Chars that are cased and in lower case, and those that
\* are cased and in upper case
LowerCased == Range(ALPHA_LOWER) \cup {"é"}
UpperCased == Range(ALPHA_UPPER) \cup {"É"}

\* str.islower() of one character
islower(c) == c \in LowerCased

\* str.isupper() of one character
isupper(c) == c \in UpperCased

\* c in alphabet, for a one-character c
contains(alphabet, c) == \E n \in 1..Len(alphabet) : alphabet[n] = c

\* alphabet.index(c): 0-based position of the first occurrence
index(alphabet, c) ==
    (CHOOSE n \in 1..Len(alphabet) :
        alphabet[n] = c /\ \A p \in 1..(n - 1) : alphabet[p] # c) - 1

\* join followed by str.strip(): blanks at either end are dropped
join_Strip(parts) ==
    LET keep == {n \in 1..Len(parts) : parts[n] # " "}
    IN  IF keep = {}
        THEN <<>>
        ELSE LET lo == CHOOSE n \in keep : \A p \in keep : n <= p
                 hi == CHOOSE n \in keep : \A p \in keep : p <= n
             IN  [n \in 1..(hi - lo + 1) |-> parts[lo + n - 1]]

\* "".join(parts) for a list of one-character strings
join(parts) == [n \in 1..Len(parts) |-> parts[n]]

\* zip(a, b): pairs up to the shorter argument
zip(a, b) ==
    [n \in 1..(IF Len(a) < Len(b) THEN Len(a) ELSE Len(b)) |-> <<a[n], b[n]>>]

----------------------------------------------------------------------------
(* Pure functions *)

\* _shift_char without its membership guard, on alphabet.find(c): -1 when absent
_shift_char_Find(c, shift, alphabet) ==
    LET n == Len(alphabet)
        idx == IF contains(alphabet, c) THEN index(alphabet, c) ELSE -1
    IN  alphabet[((idx + shift) % n) + 1]

\* _shift_char counting positions from 1
_shift_char_OneBased(c, shift, alphabet) ==
    IF ~contains(alphabet, c)
    THEN c
    ELSE LET n == Len(alphabet)
             idx == index(alphabet, c) + 1
         IN  alphabet[((idx + shift) % n) + 1]

_shift_char(c, shift, alphabet) ==
    IF ~contains(alphabet, c)
    THEN c
    ELSE LET n == Len(alphabet)
             idx == index(alphabet, c)
         IN  alphabet[((idx + shift) % n) + 1]

_encrypt_char(c, s1, s2) ==
    IF islower(c)
    THEN IF c \in LOWER_FIRST
         THEN _shift_char(c, s1 * s2, ALPHA_LOWER)
         ELSE IF c \in LOWER_SECOND
              THEN _shift_char(c, -(s1 + s2), ALPHA_LOWER)
              ELSE c
    ELSE IF isupper(c)
         THEN IF c \in UPPER_FIRST
              THEN _shift_char(c, -s1, ALPHA_UPPER)
              ELSE IF c \in UPPER_SECOND
                   THEN _shift_char(c, s2 ^ 2, ALPHA_UPPER)
                   ELSE c
         ELSE c

\* _decrypt_char trying the second-half rule first
_decrypt_char_SecondFirst(c, s1, s2) ==
    IF islower(c)
    THEN LET cand1 == _shift_char(c, -(s1 * s2), ALPHA_LOWER)
             cand2 == _shift_char(c, s1 + s2, ALPHA_LOWER)
         IN  IF cand2 \in LOWER_SECOND THEN cand2 ELSE cand1
    ELSE IF isupper(c)
         THEN LET cand1 == _shift_char(c, s1, ALPHA_UPPER)
                  cand2 == _shift_char(c, -(s2 ^ 2), ALPHA_UPPER)
              IN  IF cand2 \in UPPER_SECOND THEN cand2 ELSE cand1
         ELSE c

\* _decrypt_char that checks the fallback too: the second-half candidate is
\* taken only when it lies in the second half, else the first one is kept
_decrypt_char_CheckedFallback(c, s1, s2) ==
    IF islower(c)
    THEN LET cand1 == _shift_char(c, -(s1 * s2), ALPHA_LOWER)
             cand2 == _shift_char(c, s1 + s2, ALPHA_LOWER)
         IN  IF cand1 \in LOWER_FIRST THEN cand1
             ELSE IF cand2 \in LOWER_SECOND THEN cand2 ELSE cand1
    ELSE IF isupper(c)
         THEN LET cand1 == _shift_char(c, s1, ALPHA_UPPER)
                  cand2 == _shift_char(c, -(s2 ^ 2), ALPHA_UPPER)
              IN  IF cand1 \in UPPER_FIRST THEN cand1
                  ELSE IF cand2 \in UPPER_SECOND THEN cand2 ELSE cand1
         ELSE c

_decrypt_char(c, s1, s2) ==
    IF islower(c)
    THEN LET cand1 == _shift_char(c, -(s1 * s2), ALPHA_LOWER)
             cand2 == _shift_char(c, s1 + s2, ALPHA_LOWER)
         IN  IF cand1 \in LOWER_FIRST THEN cand1 ELSE cand2
    ELSE IF isupper(c)
         THEN LET cand1 == _shift_char(c, s1, ALPHA_UPPER)
                  cand2 == _shift_char(c, -(s2 ^ 2), ALPHA_UPPER)
              IN  IF cand1 \in UPPER_FIRST THEN cand1 ELSE cand2
         ELSE c

\* encrypt_text with a key that advances with the position
encrypt_text_RunningKey(t, s1, s2) ==
    join([n \in 1..Len(t) |-> _encrypt_char(t[n], s1 + (n - 1), s2)])

encrypt_text(t, s1, s2) ==
    join([n \in 1..Len(t) |-> _encrypt_char(t[n], s1, s2)])

decrypt_text(t, s1, s2) ==
    join([n \in 1..Len(t) |-> _decrypt_char(t[n], s1, s2)])

\* EncryptMetaChar with the codes of the two lowercase branches exchanged
EncryptMetaChar_SwappedCodes(c, s1, s2) ==
    IF islower(c)
    THEN IF c \in LOWER_FIRST
         THEN <<_shift_char(c, s1 * s2, ALPHA_LOWER), "L">>
         ELSE IF c \in LOWER_SECOND
              THEN <<_shift_char(c, -(s1 + s2), ALPHA_LOWER), "l">>
              ELSE <<c, "0">>
    ELSE IF isupper(c)
         THEN IF c \in UPPER_FIRST
              THEN <<_shift_char(c, -s1, ALPHA_UPPER), "u">>
              ELSE IF c \in UPPER_SECOND
                   THEN <<_shift_char(c, s2 ^ 2, ALPHA_UPPER), "U">>
                   ELSE <<c, "0">>
         ELSE <<c, "0">>

\* EncryptMetaChar choosing the code from the half the shifted character is in
EncryptMetaChar_ClassifyShifted(c, s1, s2) ==
    IF islower(c)
    THEN IF c \in LOWER_FIRST
         THEN LET e == _shift_char(c, s1 * s2, ALPHA_LOWER)
              IN  <<e, IF e \in LOWER_FIRST THEN "l" ELSE "L">>
         ELSE IF c \in LOWER_SECOND
              THEN LET e == _shift_char(c, -(s1 + s2), ALPHA_LOWER)
                   IN  <<e, IF e \in LOWER_FIRST THEN "l" ELSE "L">>
              ELSE <<c, "0">>
    ELSE IF isupper(c)
         THEN IF c \in UPPER_FIRST
              THEN LET e == _shift_char(c, -s1, ALPHA_UPPER)
                   IN  <<e, IF e \in UPPER_FIRST THEN "u" ELSE "U">>
              ELSE IF c \in UPPER_SECOND
                   THEN LET e == _shift_char(c, s2 ^ 2, ALPHA_UPPER)
                        IN  <<e, IF e \in UPPER_FIRST THEN "u" ELSE "U">>
                   ELSE <<c, "0">>
         ELSE <<c, "0">>

\* body of the loop of encrypt_text_with_meta: <<character appended to
\* encrypted_chars, code appended to meta_chars>>
EncryptMetaChar(c, s1, s2) ==
    IF islower(c)
    THEN IF c \in LOWER_FIRST
         THEN <<_shift_char(c, s1 * s2, ALPHA_LOWER), "l">>
         ELSE IF c \in LOWER_SECOND
              THEN <<_shift_char(c, -(s1 + s2), ALPHA_LOWER), "L">>
              ELSE <<c, "0">>
    ELSE IF isupper(c)
         THEN IF c \in UPPER_FIRST
              THEN <<_shift_char(c, -s1, ALPHA_UPPER), "u">>
              ELSE IF c \in UPPER_SECOND
                   THEN <<_shift_char(c, s2 ^ 2, ALPHA_UPPER), "U">>
                   ELSE <<c, "0">>
         ELSE <<c, "0">>

\* encrypt_text_with_meta as a function: <<ciphertext, metadata>>
encrypt_text_with_meta(t, s1, s2) ==
    <<join([n \in 1..Len(t) |-> EncryptMetaChar(t[n], s1, s2)[1]]),
      join([n \in 1..Len(t) |-> EncryptMetaChar(t[n], s1, s2)[2]])>>

\* LengthMismatch checking one direction only, so that zip cuts a longer
\* ciphertext short
LengthMismatch_OneSided(c, m) == Len(c) < Len(m)

\* the guard of decrypt_text_with_meta
LengthMismatch(c, m) == Len(c) # Len(m)

\* DecryptMetaChar with (-shift2) ** 2 for -(shift2 ** 2) in the 'U' branch
DecryptMetaChar_SignSquare(c, m, s1, s2) ==
    IF m = "l" THEN _shift_char(c, -(s1 * s2), ALPHA_LOWER)
    ELSE IF m = "L" THEN _shift_char(c, s1 + s2, ALPHA_LOWER)
    ELSE IF m = "u" THEN _shift_char(c, s1, ALPHA_UPPER)
    ELSE IF m = "U" THEN _shift_char(c, (-s2) ^ 2, ALPHA_UPPER)
    ELSE c

\* DecryptMetaChar choosing the rule from the ciphertext character, as
\* _decrypt_char does, whenever the code is not '0'
DecryptMetaChar_Heuristic(c, m, s1, s2) ==
    IF m = "0" THEN c ELSE _decrypt_char(c, s1, s2)

\* body of the loop of decrypt_text_with_meta: the character appended to
\* result_chars for ciphertext character c and metadata code m
DecryptMetaChar(c, m, s1, s2) ==
    IF m = "l" THEN _shift_char(c, -(s1 * s2), ALPHA_LOWER)
    ELSE IF m = "L" THEN _shift_char(c, s1 + s2, ALPHA_LOWER)
    ELSE IF m = "u" THEN _shift_char(c, s1, ALPHA_UPPER)
    ELSE IF m = "U" THEN _shift_char(c, -(s2 ^ 2), ALPHA_UPPER)
    ELSE c

\* decrypt_text_with_meta as a function: the exception raised ("" when none)
\* and the set holding the returned str (empty when it raises)
decrypt_text_with_meta(c, m, s1, s2) ==
    IF LengthMismatch(c, m)
    THEN [raised |-> "ValueError", value |-> {}]
    ELSE LET pairs == zip(c, m)
         IN  [raised |-> "",
              value |-> {join([n \in 1..Len(pairs) |->
                            DecryptMetaChar(pairs[n][1], pairs[n][2], s1, s2)])}]

----------------------------------------------------------------------------
(* Inputs *)

\* keys: small ones of either sign, zero, and one beyond a full turn of the
\* alphabet in each direction
Keys == (-MaxKey..MaxKey) \cup {Len(ALPHA_LOWER) + MaxKey, -(Len(ALPHA_LOWER) + MaxKey)}

\* the characters longer texts are built from: a letter of either half, an
\* uppercase letter and a blank
SampleChars == {"a", "n", "N", " "}

SeqsUpTo(S, n) == UNION {[1..m -> S] : m \in 0..n}

\* the empty text, every one-character text, and the texts over SampleChars
Texts == SeqsUpTo(Chars, 1) \cup SeqsUpTo(SampleChars, MaxLen)

\* the codes encrypt_text_with_meta documents, and one it never emits
MetaCodes == {"l", "L", "u", "U", "0"}
Codes == MetaCodes \cup {"x"}

\* metadata a caller may hand to decrypt_text_with_meta for a stored sidecar m:
\* m itself, m with one code replaced, m cut short, m extended
MetaChoices(m) ==
    {m} \cup {[m EXCEPT ![p] = code] : p \in 1..Len(m), code \in Codes}
        \cup {<<>>, SubSeq(m, 1, Len(m) - 1), Append(m, "0")}

----------------------------------------------------------------------------
(* The caller *)

Init ==
    /\ text \in Texts
    /\ shift1 \in Keys
    /\ shift2 \in Keys
    /\ pc = "start"
    /\ plain = <<>>
    /\ encrypted_chars = <<>>
    /\ meta_chars = <<>>
    /\ i = 0
    /\ enc = <<>>
    /\ meta = <<>>
    /\ ciphertext = <<>>
    /\ metadata = <<>>
    /\ result_chars = <<>>
    /\ k = 0
    /\ dec = {}
    /\ raised = ""
    /\ heur_in = <<>>
    /\ heur = <<>>

\* plain = encrypt_text(text, shift1, shift2)
EncryptText ==
    /\ pc = "start"
    /\ plain' = encrypt_text(text, shift1, shift2)
    /\ pc' = "plain_done"
    /\ UNCHANGED <<text, shift1, shift2, encrypted_chars, meta_chars, i, enc, meta,
                   ciphertext, metadata, result_chars, k, dec, raised, heur_in, heur>>

\* encrypt_text_with_meta(text, shift1, shift2): the two empty lists
EncryptMetaCall ==
    /\ pc = "plain_done"
    /\ encrypted_chars' = <<>>
    /\ meta_chars' = <<>>
    /\ i' = 0
    /\ pc' = "enc_loop"
    /\ UNCHANGED <<text, shift1, shift2, plain, enc, meta,
                   ciphertext, metadata, result_chars, k, dec, raised, heur_in, heur>>

\* one iteration of `for c in text`
EncryptMetaStep ==
    /\ pc = "enc_loop"
    /\ i < Len(text)
    /\ LET c == text[i + 1]
           out == EncryptMetaChar(c, shift1, shift2)
       IN  /\ encrypted_chars' = Append(encrypted_chars, out[1])
           /\ meta_chars' = Append(meta_chars, out[2])
    /\ i' = i + 1
    /\ UNCHANGED <<text, shift1, shift2, pc, plain, enc, meta,
                   ciphertext, metadata, result_chars, k, dec, raised, heur_in, heur>>

\* return "".join(encrypted_chars), "".join(meta_chars)
EncryptMetaReturn ==
    /\ pc = "enc_loop"
    /\ i = Len(text)
    /\ enc' = join(encrypted_chars)
    /\ meta' = join(meta_chars)
    /\ pc' = "enc_done"
    /\ UNCHANGED <<text, shift1, shift2, plain, encrypted_chars, meta_chars, i,
                   ciphertext, metadata, result_chars, k, dec, raised, heur_in, heur>>

\* decrypt_text_with_meta(c, m, shift1, shift2) with equal lengths: enters the loop
DecryptMetaCall ==
    /\ pc = "enc_done"
    /\ \E c \in {enc, text} : \E m \in MetaChoices(meta) :
        /\ ~LengthMismatch(c, m)
        /\ ciphertext' = c
        /\ metadata' = m
    /\ result_chars' = <<>>
    /\ k' = 0
    /\ pc' = "dec_loop"
    /\ UNCHANGED <<text, shift1, shift2, plain, encrypted_chars, meta_chars, i,
                   enc, meta, dec, raised, heur_in, heur>>

\* decrypt_text_with_meta(c, m, shift1, shift2) with unequal lengths: raises
DecryptMetaRaise ==
    /\ pc = "enc_done"
    /\ \E c \in {enc, text} : \E m \in MetaChoices(meta) :
        /\ LengthMismatch(c, m)
        /\ ciphertext' = c
        /\ metadata' = m
    /\ raised' = "ValueError"
    /\ pc' = "dec_raised"
    /\ UNCHANGED <<text, shift1, shift2, plain, encrypted_chars, meta_chars, i,
                   enc, meta, result_chars, k, dec, heur_in, heur>>

\* one iteration of `for c, m in zip(ciphertext, metadata)`
DecryptMetaStep ==
    /\ pc = "dec_loop"
    /\ k < Len(zip(ciphertext, metadata))
    /\ LET pair == zip(ciphertext, metadata)[k + 1]
       IN  result_chars' =
               Append(result_chars, DecryptMetaChar(pair[1], pair[2], shift1, shift2))
    /\ k' = k + 1
    /\ UNCHANGED <<text, shift1, shift2, pc, plain, encrypted_chars, meta_chars, i,
                   enc, meta, ciphertext, metadata, dec, raised, heur_in, heur>>

\* return "".join(result_chars)
DecryptMetaReturn ==
    /\ pc = "dec_loop"
    /\ k = Len(zip(ciphertext, metadata))
    /\ dec' = {join(result_chars)}
    /\ pc' = "dec_done"
    /\ UNCHANGED <<text, shift1, shift2, plain, encrypted_chars, meta_chars, i,
                   enc, meta, ciphertext, metadata, result_chars, k, raised,
                   heur_in, heur>>

\* heur = decrypt_text(ciphertext, shift1, shift2): the metadata-free decoder
\* on the ciphertext the other decoder was handed
DecryptText ==
    /\ pc \in {"dec_done", "dec_raised"}
    /\ heur_in' = ciphertext
    /\ heur' = decrypt_text(ciphertext, shift1, shift2)
    /\ pc' = "done"
    /\ UNCHANGED <<text, shift1, shift2, plain, encrypted_chars, meta_chars, i,
                   enc, meta, ciphertext, metadata, result_chars, k, dec, raised>>

Next ==
    \/ EncryptText
    \/ EncryptMetaCall
    \/ EncryptMetaStep
    \/ EncryptMetaReturn
    \/ DecryptMetaCall
    \/ DecryptMetaRaise
    \/ DecryptMetaStep
    \/ DecryptMetaReturn
    \/ DecryptText

Spec == Init /\ [][Next]_vars

----------------------------------------------------------------------------
(* The worked example: "Hello, World!" under the keys (3, 2) *)

HelloWorld == <<"H","e","l","l","o",","," ","W","o","r","l","d","!">>

InitExample ==
    /\ text = HelloWorld
    /\ shift1 = 3
    /\ shift2 = 2
    /\ pc = "start"
    /\ plain = <<>>
    /\ encrypted_chars = <<>>
    /\ meta_chars = <<>>
    /\ i = 0
    /\ enc = <<>>
    /\ meta = <<>>
    /\ ciphertext = <<>>
    /\ metadata = <<>>
    /\ result_chars = <<>>
    /\ k = 0
    /\ dec = {}
    /\ raised = ""
    /\ heur_in = <<>>
    /\ heur = <<>>

SpecExample == InitExample /\ [][Next]_vars

----------------------------------------------------------------------------
(* Properties *)

\* encrypt_text_with_meta has returned
Encrypted == pc \in {"enc_done", "dec_loop", "dec_done", "dec_raised", "done"}

\* decrypt_text_with_meta has been called
DecryptCalled == pc \in {"dec_loop", "dec_done", "dec_raised", "done"}

\* C1: round trip in metadata mode. Whenever decrypt_text_with_meta returns on
\* the ciphertext and the metadata encrypt_text_with_meta returned for text,
\* under the same keys, the value returned is exactly text.
C1_RoundTrip ==
    (dec # {} /\ ciphertext = enc /\ metadata = meta) => dec = {text}

\* a round trip of a two-character text that encryption changes, under a
\* negative key and a key beyond a full turn
C1_Witness ==
    /\ dec = {text}
    /\ ciphertext = enc
    /\ metadata = meta
    /\ Len(text) = 2
    /\ enc # text
    /\ "N" \in Range(text)
    /\ shift1 < 0
    /\ shift2 > Len(ALPHA_LOWER)

\* the metadata the source returns for the worked example
ExampleMeta == <<"u","l","l","l","L","0","0","U","L","L","l","l","0">>

\* C2 (as amended): for "Hello, World!" under the keys (3, 2) the loop of
\* encrypt_text_with_meta emits, code by code, ulllL00ULLll0: e, l, l, l and d
\* lie in a-m and get 'l'; only o, r, o get 'L'. The returned metadata is that
\* string.
C2_ExampleMetadata ==
    /\ text = HelloWorld /\ shift1 = 3 /\ shift2 = 2
    /\ meta_chars = SubSeq(ExampleMeta, 1, i)
    /\ Encrypted => meta = ExampleMeta

C2_Witness ==
    /\ pc = "enc_done"
    /\ text = HelloWorld
    /\ Len(meta) = Len(HelloWorld)

\* C2 (as claimed): the returned metadata of the worked example is
\* uLLLL00ULLLL0.
C2_AsClaimed ==
    (Encrypted /\ text = HelloWorld /\ shift1 = 3 /\ shift2 = 2)
        => meta = <<"u","L","L","L","L","0","0","U","L","L","L","L","0">>

\* C3: once decrypt_text_with_meta has been called, unequal lengths of
\* ciphertext and metadata mean it raised ValueError, built no character and
\* returned nothing, whatever the keys; equal lengths mean it raised nothing
\* and, once past its loop, returned a str. The example ("ab", "l", 3, 4)
\* raises.
C3_LengthMismatch ==
    /\ DecryptCalled =>
          IF Len(ciphertext) # Len(metadata)
          THEN raised = "ValueError" /\ dec = {} /\ result_chars = <<>> /\ k = 0
               /\ pc \in {"dec_raised", "done"}
          ELSE raised = "" /\ (pc \in {"dec_done", "done"} => Cardinality(dec) = 1)
    /\ decrypt_text_with_meta(<<"a", "b">>, <<"l">>, 3, 4) =
          [raised |-> "ValueError", value |-> {}]

\* a call with a two-character ciphertext and one code has raised
C3_Witness ==
    /\ pc = "dec_raised"
    /\ raised = "ValueError"
    /\ Len(ciphertext) = 2
    /\ Len(metadata) = 1

\* C4: length preservation. encrypt_text returns as many characters as text
\* has; after every iteration of the loop of encrypt_text_with_meta the two
\* lists hold one entry per character consumed; the ciphertext and the
\* metadata it returns have the length of text.
C4_LengthPreserved ==
    /\ pc # "start" => Len(plain) = Len(text)
    /\ Len(encrypted_chars) = i
    /\ Len(meta_chars) = i
    /\ i <= Len(text)
    /\ Encrypted => Len(enc) = Len(text) /\ Len(meta) = Len(text)

\* both encoders have returned for a two-character text with a blank in it
C4_Witness ==
    /\ pc = "enc_done"
    /\ Len(text) = 2
    /\ " " \in Range(text)
    /\ Len(plain) = 2
    /\ Len(enc) = 2
    /\ Len(meta) = 2

\* the ASCII letters
LowerLetters == Range(ALPHA_LOWER)
UpperLetters == Range(ALPHA_UPPER)
AsciiLetters == LowerLetters \cup UpperLetters

\* C5: passthrough fixed points. A character outside a-z and A-Z comes out
\* of encrypt_text, of the loop of encrypt_text_with_meta (with code '0'), of
\* the loop of decrypt_text_with_meta (whatever code it is paired with) and of
\* decrypt_text as it went in, under every key pair.
C5_Passthrough ==
    /\ \A n \in 1..Len(text) : text[n] \notin AsciiLetters =>
          /\ pc # "start" => plain[n] = text[n]
          /\ n <= Len(encrypted_chars) =>
                encrypted_chars[n] = text[n] /\ meta_chars[n] = "0"
          /\ Encrypted => enc[n] = text[n] /\ meta[n] = "0"
    /\ \A n \in 1..Len(result_chars) : ciphertext[n] \notin AsciiLetters =>
          /\ result_chars[n] = ciphertext[n]
          /\ \A d \in dec : d[n] = ciphertext[n]
    /\ pc = "done" =>
          \A n \in 1..Len(heur_in) : heur_in[n] \notin AsciiLetters =>
              heur[n] = heur_in[n]

\* a lowercase letter outside ASCII, paired with code 'l' under keys that
\* shift, has gone through both decoders
C5_Witness ==
    /\ pc = "done"
    /\ text = <<"é">>
    /\ metadata = <<"l">>
    /\ dec = {<<"é">>}
    /\ heur = <<"é">>
    /\ shift1 * shift2 # 0

\* C6: heuristic divergence. Under the keys (1, 1) the letter n encrypts to
\* l; decrypt_text accepts the first-half candidate k, which is not n, while
\* decrypt_text_with_meta on the returned ciphertext and metadata gives n back.
C6_HeuristicDivergence ==
    (/\ pc = "done"
     /\ text = <<"n">> /\ shift1 = 1 /\ shift2 = 1
     /\ heur_in = enc
     /\ ciphertext = enc /\ metadata = meta)
    => (/\ plain = <<"l">>
        /\ heur = <<"k">>
        /\ heur # text
        /\ dec = {text})

C6_Witness ==
    /\ pc = "done"
    /\ text = <<"n">> /\ shift1 = 1 /\ shift2 = 1
    /\ heur_in = enc
    /\ ciphertext = enc /\ metadata = meta
    /\ heur # text
    /\ dec = {text}

\* 0-based position of a letter in its alphabet
Pos(alphabet, c) == CHOOSE n \in 0..(Len(alphabet) - 1) : alphabet[n + 1] = c

\* x is a whole multiple of n
Multiple(x, n) == n * (x \div n) = x

\* r is the letter of alphabet whose position, which lies in 0..25, differs
\* from Pos(c) + d by a whole number of turns of the alphabet
ShiftedTo(c, r, d, alphabet) ==
    /\ r \in Range(alphabet)
    /\ Multiple(Pos(alphabet, c) + d - Pos(alphabet, r), Len(alphabet))

\* first 13 / last 13 letters of an alphabet
FirstHalf(alphabet) == {alphabet[n] : n \in 1..13}
SecondHalf(alphabet) == {alphabet[n] : n \in 14..26}

\* the alphabet of an ASCII letter
AlphabetOf(c) == IF c \in LowerLetters THEN ALPHA_LOWER ELSE ALPHA_UPPER

\* the forward shift of the table for an ASCII letter
TableShift(c, s1, s2) ==
    IF c \in FirstHalf(ALPHA_LOWER) THEN s1 * s2
    ELSE IF c \in SecondHalf(ALPHA_LOWER) THEN -(s1 + s2)
    ELSE IF c \in FirstHalf(ALPHA_UPPER) THEN -s1
    ELSE s2 * s2

\* C7: forward shift table. For an ASCII letter at position p of its
\* alphabet, encrypt_text and encrypt_text_with_meta both put out the letter
\* of the same alphabet at the residue of p + d in 0..25, d being the shift of
\* the table, for keys of any sign and size; the two encoders return the same
\* ciphertext.
C7_ForwardTable ==
    /\ \A n \in 1..Len(text) : text[n] \in AsciiLetters =>
          LET c == text[n]
              d == TableShift(c, shift1, shift2)
          IN  /\ pc # "start" => ShiftedTo(c, plain[n], d, AlphabetOf(c))
              /\ n <= Len(encrypted_chars) =>
                    ShiftedTo(c, encrypted_chars[n], d, AlphabetOf(c))
              /\ Encrypted => ShiftedTo(c, enc[n], d, AlphabetOf(c))
    /\ Encrypted => enc = plain

\* the letter a under a product of keys below -26: the residue wraps to a
\* letter other than a
C7_Witness ==
    /\ pc = "enc_done"
    /\ text = <<"a">>
    /\ shift1 * shift2 < -Len(ALPHA_LOWER)
    /\ enc = plain
    /\ enc # text

\* m is the code of the category of plaintext character c
CodeMatches(c, m) ==
    /\ m \in {"l", "L", "u", "U", "0"}
    /\ m = "l" <=> c \in FirstHalf(ALPHA_LOWER)
    /\ m = "L" <=> c \in SecondHalf(ALPHA_LOWER)
    /\ m = "u" <=> c \in FirstHalf(ALPHA_UPPER)
    /\ m = "U" <=> c \in SecondHalf(ALPHA_UPPER)
    /\ m = "0" <=> c \notin AsciiLetters

\* C8: the metadata code at a position is 'l', 'L', 'u', 'U' or '0' according
\* to the plaintext character there being in a-m, n-z, A-M, N-Z or none of
\* them, under every key pair; no other code is emitted.
C8_MetadataCategory ==
    /\ \A n \in 1..Len(meta_chars) : CodeMatches(text[n], meta_chars[n])
    /\ Encrypted =>
          /\ Len(meta) = Len(text)
          /\ \A n \in 1..Len(text) : CodeMatches(text[n], meta[n])

\* a second-half letter whose ciphertext lies in the first half keeps code 'L'
C8_Witness ==
    /\ pc = "enc_done"
    /\ Len(text) = 1
    /\ text[1] \in SecondHalf(ALPHA_LOWER)
    /\ enc[1] \in FirstHalf(ALPHA_LOWER)
    /\ meta = <<"L">>

\* the two parts of s cut after p characters
Before(s, p) == SubSeq(s, 1, p)
After(s, p) == SubSeq(s, p + 1, Len(s))

\* C9: chunked processing. For every cut of the input, the value a function
\* returns for the whole (seen in the state it returns to) is the concatenation of what it returns for the two
\* parts: encrypt_text, both results of encrypt_text_with_meta, decrypt_text,
\* and decrypt_text_with_meta with ciphertext and metadata cut at the same
\* place; each character of encrypt_text's value is what encrypt_text returns
\* for that character alone.
C9_Chunked ==
    /\ pc = "plain_done" =>
          /\ \A p \in 0..Len(text) :
                plain = encrypt_text(Before(text, p), shift1, shift2)
                            \o encrypt_text(After(text, p), shift1, shift2)
          /\ \A n \in 1..Len(text) :
                <<plain[n]>> = encrypt_text(<<text[n]>>, shift1, shift2)
    /\ pc = "enc_done" =>
          \A p \in 0..Len(text) :
              LET a == encrypt_text_with_meta(Before(text, p), shift1, shift2)
                  b == encrypt_text_with_meta(After(text, p), shift1, shift2)
              IN  enc = a[1] \o b[1] /\ meta = a[2] \o b[2]
    /\ pc = "dec_done" =>
          \A p \in 0..Len(ciphertext) :
              LET a == decrypt_text_with_meta(Before(ciphertext, p), Before(metadata, p),
                                              shift1, shift2)
                  b == decrypt_text_with_meta(After(ciphertext, p), After(metadata, p),
                                              shift1, shift2)
              IN  /\ a.raised = "" /\ b.raised = ""
                  /\ dec = {x \o y : x \in a.value, y \in b.value}
    /\ pc = "done" =>
          \A p \in 0..Len(heur_in) :
              heur = decrypt_text(Before(heur_in, p), shift1, shift2)
                         \o decrypt_text(After(heur_in, p), shift1, shift2)

\* every function has returned for a two-character text that encryption
\* changes in both positions
C9_Witness ==
    /\ pc = "done"
    /\ Len(text) = 2
    /\ plain[1] # text[1]
    /\ plain[2] # text[2]
    /\ Len(ciphertext) = 2
    /\ dec # {}
    /\ heur_in = plain

\* what a code's shift d in alphabet does to ciphertext character c: the
\* letter at the residue of Pos(c) + d, or c itself when c is not in alphabet
InverseApplied(c, r, d, alphabet) ==
    IF c \in Range(alphabet) THEN ShiftedTo(c, r, d, alphabet) ELSE r = c

\* C10: metadata-only dispatch. For equal-length inputs, the character the
\* loop of decrypt_text_with_meta appends at a position is fixed by the code
\* there: 'l' shifts by -(shift1*shift2) and 'L' by shift1+shift2 in the
\* lowercase alphabet, 'u' by shift1 and 'U' by -(shift2*shift2) in the
\* uppercase alphabet, '0' leaves the character as it is, whichever half the
\* ciphertext character lies in; the value returned is the characters
\* appended.
C10_MetadataDispatch ==
    /\ \A n \in 1..Len(result_chars) :
          LET c == ciphertext[n]
              m == metadata[n]
              r == result_chars[n]
          IN  /\ m = "l" => InverseApplied(c, r, -(shift1 * shift2), ALPHA_LOWER)
              /\ m = "L" => InverseApplied(c, r, shift1 + shift2, ALPHA_LOWER)
              /\ m = "u" => InverseApplied(c, r, shift1, ALPHA_UPPER)
              /\ m = "U" => InverseApplied(c, r, -(shift2 * shift2), ALPHA_UPPER)
              /\ m = "0" => r = c
    /\ dec # {} => dec = {result_chars} /\ Len(result_chars) = Len(ciphertext)

\* code 'l' on a second-half ciphertext letter whose shifted letter is again in
\* the second half: the first-half rule applied where no first-half letter is
\* involved
C10_Witness ==
    /\ pc = "dec_done"
    /\ metadata = <<"l">>
    /\ ciphertext[1] \in SecondHalf(ALPHA_LOWER)
    /\ result_chars[1] \in SecondHalf(ALPHA_LOWER)
    /\ result_chars # ciphertext

\* the letter of alphabet that c is shifted to by d
Target(c, d, alphabet) ==
    LET p == Pos(alphabet, c) + d
    IN  alphabet[CHOOSE n \in 1..Len(alphabet) : Multiple(p - (n - 1), Len(alphabet))]

\* the character the tie-break rule prescribes for a ciphertext letter c of
\* alphabet: the candidate of the first-half inverse shift d1 when it lies in
\* the first half, else the candidate of the second-half inverse shift d2
TieBreak(c, d1, d2, alphabet) ==
    LET first == Target(c, d1, alphabet)
    IN  IF first \in FirstHalf(alphabet) THEN first ELSE Target(c, d2, alphabet)

\* C11: tie-break rule of the heuristic decode. For a lowercase letter of its
\* argument decrypt_text returns the letter shifted by -(shift1*shift2) when
\* that letter is in a-m and otherwise the letter shifted by shift1+shift2,
\* whichever half that one is in; for an uppercase letter, the letter shifted
\* by shift1 when that is in A-M and otherwise the letter shifted by
\* -(shift2*shift2). It returns one character per character of its argument,
\* after a return as after a raise of the other decoder, for every text and
\* key pair.
C11_TieBreak ==
    /\ pc = "done" =>
          /\ Len(heur) = Len(heur_in)
          /\ \A n \in 1..Len(heur_in) :
                LET c == heur_in[n]
                IN  /\ c \in LowerLetters =>
                          heur[n] = TieBreak(c, -(shift1 * shift2), shift1 + shift2,
                                             ALPHA_LOWER)
                    /\ c \in UpperLetters =>
                          heur[n] = TieBreak(c, shift1, -(shift2 * shift2),
                                             ALPHA_UPPER)
    /\ pc \in {"dec_done", "dec_raised"} => ENABLED DecryptText

\* the fallback taken with no further check: for z under the keys (1, 1) the
\* first candidate y is not in a-m, and the second candidate b, which is not
\* in n-z, is returned
C11_Witness ==
    /\ pc = "done"
    /\ shift1 = 1 /\ shift2 = 1
    /\ heur_in = <<"z">>
    /\ heur = <<"b">>

\* C12: region where the heuristic decode is right. On the value of
\* encrypt_text, decrypt_text gives back every first-half letter (a-m, A-M) and
\* every character that is no ASCII letter, under every key pair. For a
\* second-half letter it gives back another character exactly when the
\* first-half inverse shift of the encrypted character lands in the first
\* half; the second-half inverse shift then lands in the second half, so the
\* two candidates lie in different halves.
C12_HeuristicRegion ==
    (pc = "done" /\ heur_in = plain) =>
        \A n \in 1..Len(text) :
            LET c == text[n]
                e == plain[n]
                r == heur[n]
            IN  /\ c \in FirstHalf(ALPHA_LOWER) \cup FirstHalf(ALPHA_UPPER) => r = c
                /\ c \notin AsciiLetters => r = c
                /\ c \in SecondHalf(ALPHA_LOWER) =>
                      LET cand1 == Target(e, -(shift1 * shift2), ALPHA_LOWER)
                          cand2 == Target(e, shift1 + shift2, ALPHA_LOWER)
                      IN  /\ r # c <=> cand1 \in FirstHalf(ALPHA_LOWER)
                          /\ r # c => cand2 \in SecondHalf(ALPHA_LOWER)
                /\ c \in SecondHalf(ALPHA_UPPER) =>
                      LET cand1 == Target(e, shift1, ALPHA_UPPER)
                          cand2 == Target(e, -(shift2 * shift2), ALPHA_UPPER)
                      IN  /\ r # c <=> cand1 \in FirstHalf(ALPHA_UPPER)
                          /\ r # c => cand2 \in SecondHalf(ALPHA_UPPER)

\* a first-half letter that encryption moves is given back next to an
\* uppercase second-half letter that is not
C12_Witness ==
    /\ pc = "done"
    /\ heur_in = plain
    /\ Len(text) = 2
    /\ text[1] = "a" /\ plain[1] # "a" /\ heur[1] = "a"
    /\ text[2] = "N" /\ heur[2] # "N"

\* a second-half letter that the heuristic does give back although encryption
\* moved it into the first half
C12_WitnessRecovered ==
    /\ pc = "done"
    /\ heur_in = plain
    /\ text = <<"n">>
    /\ plain[1] \in FirstHalf(ALPHA_LOWER)
    /\ heur = text

====
